---- MODULE Spec2Model ----
(***************************************************************************)
(* Model of the mining worker of go-filecoin (DefaultWorker.Mine): one     *)
(* mining attempt on a base tipset, its two proof-generation goroutines    *)
(* and the caller's context.  Every statement of Mine that reads a         *)
(* collaborator is one step; the collaborator's answer (a value or an      *)
(* error) is chosen by the environment.                                    *)
(***************************************************************************)
EXTENDS Integers, Sequences, FiniteSets, TLC

(* ---------------- bounds of the model ---------------- *)
MaxNullBlk == 1
MaxHeight == 1
MaxAncestors == 2
MaxCandidates == 2

(* ---------------- program constants ---------------- *)
\* miner.ElectionLookback as used in SampleNthTicket(int(miner.ElectionLookback-1), ancestors)
ElectionLookback == 1

(* ---------------- value domains ---------------- *)
Tickets == {"tkA", "tkB"}
NoTicket == "noTicket"
Addrs == {"worker1"}
NoAddr == "undef"
PartialTickets == {0, 1}
SectorCounts == {0, 4}
NetworkPowers == {1, 2}
SectorSizes == {1}
PoStProofs == {"postA"}
NilPoSt == "nil"
EngineErrors == {"engineErrA", "engineErrB"}
NoErr == "nil"
NilRandomness == <<>>
NilBlock == [nil |-> TRUE]

\* errors.New("bad input tipset with no blocks sent to Mine()")
ErrBadTipSet == "bad input tipset with no blocks sent to Mine()"

\* the error a failing synchronous step returns, one per step
ErrOf(op) == "err:" \o op

SeqsUpTo(S, n) == UNION {[1..k -> S] : k \in 0..n}

VARIABLES
    pc,               \* position of Mine
    cancelled,        \* ctx.Done() is closed / ctx.Err() != nil
    entryCancelled,   \* ctx was already cancelled when Mine was invoked
    base,             \* the base tipset argument
    nullBlkCount,     \* the nullBlkCount argument
    outCh,            \* the Outputs sent on the caller's channel, in order
    won,              \* the named result of Mine
    calls,            \* log of the steps Mine made and the error each returned
    workerAddr, prevTicket, nextTicket, baseHeight, ancestors,
    electionTicket, postRandomness, sortedSectorInfos,
    candGen,          \* the goroutine running GenerateCandidates
    candBranch,       \* the case the first select took
    candidates, sectorNum, networkPower, sectorSize, winners,
    postGen,          \* the goroutine running GeneratePoSt
    postBranch,       \* the case the second select took
    post

args == <<base, nullBlkCount, entryCancelled>>
early == <<workerAddr, prevTicket, nextTicket, baseHeight, ancestors,
           electionTicket, postRandomness, sortedSectorInfos>>
race1 == <<candGen, candBranch, candidates>>
power == <<sectorNum, networkPower, sectorSize>>
race2 == <<postGen, postBranch, post>>

VARIABLES
    worker,           \* the DefaultWorker the attempts run on: the fields Mine passes on
    parked            \* a second attempt on the same worker, while it is not the one taking a step

VARIABLES
    store,            \* the chain the TipSetProvider reads: its tipsets and the keys it cannot resolve
    samplerAtHead,    \* the SamplerAtHead in use: its bound head, NoSampler before NewSamplerAtHead
    sampled           \* the last Sample call: its arguments and what it returned

VARIABLES
    gasLimit,         \* GasTracker.gasLimit
    gasConsumed,      \* GasTracker.gasConsumed
    charged           \* the last Charge or TryCharge call: its argument and outcome

samplerVars == <<store, samplerAtHead, sampled>>
gasVars == <<gasLimit, gasConsumed, charged>>
attemptVars == <<pc, cancelled, outCh, won, calls, args, early, race1, power, winners, race2>>
mineVars == <<attemptVars, worker, parked>>
vars == <<pc, cancelled, outCh, won, calls, args, early, race1, power, winners, race2,
          worker, parked, samplerVars, gasVars>>

(* ---------------- Output ---------------- *)
Output(b, e) == [NewBlock |-> b, Err |-> e]

Call(op, e) == [op |-> op, err |-> e]

IdleGen == [st |-> "none", err |-> NoErr, cands |-> <<>>, proof |-> NilPoSt,
            rand |-> NilRandomness, winners |-> <<>>]

UndefTipSet == [defined |-> FALSE, height |-> 0, minTicket |-> NoTicket]

TipSets == {UndefTipSet} \cup
           [defined : {TRUE}, height : 0..MaxHeight, minTicket : Tickets]

(* ---------------- the sampler and the gas tracker at rest ---------------- *)
\* block.NewTipSetKey(): the empty key; the other keys are 1 (genesis) .. Len(store.tipsets)
EmptyKey == 0
\* a nil error of the sampler, and the error of a GetTipSet(key) that fails
NilError == [msg |-> "nil", key |-> 0]
GetTipSetError(key) == [msg |-> "GetTipSet failed", key |-> key]
\* a nil crypto.RandomSeed
NoSeed == <<>>

EmptyStore == [tipsets |-> <<>>, unreadable |-> {}]
NoSampler == [bound |-> FALSE, head |-> EmptyKey]
NoSample == [via |-> "none", head |-> EmptyKey, epoch |-> 0, seed |-> NoSeed,
             err |-> NilError, reads |-> <<>>, again |-> FALSE]
NoAbort == "none"
SysErrOutOfGas == "SysErrOutOfGas"
\* no call yet; of a call, `refunded` tells that it or a call before it had a
\* negative amount and `failedBefore` that a call before it failed
NoCharge == [op |-> "none", amount |-> 0, before |-> 0, ok |-> TRUE, abort |-> NoAbort,
             refunded |-> FALSE, failedBefore |-> FALSE]

\* NewDefaultWorker(parameters): of the fields it sets, the two Mine passes on by value
NewDefaultWorker == [minerAddr |-> "miner1", workerSigner |-> "signer1"]
\* no second attempt
NoAttempt == [id |-> 0, st |-> <<>>]

\* no Sampler and no GasTracker in use
SamplerIdle == store = EmptyStore /\ samplerAtHead = NoSampler /\ sampled = NoSample
GasIdle == gasLimit = 0 /\ gasConsumed = 0 /\ charged = NoCharge

(* ---------------- 64-bit integers ---------------- *)
\* An integer about as large as a uint64 or an int64 can be is written
\* k * 2^63 + d with d small in size: Wide(2, -1) is 2^64 - 1, the largest
\* uint64, and Wide(1, -1) is 2^63 - 1, the largest int64 (abi.ChainEpoch).
\* Two such integers are equal exactly when their k and their d are.
Wide(k, d) == [k |-> k, d |-> d]
WideOf(i) == Wide(0, i)
\* the sum, as an integer
WidePlus(a, b) == Wide(a.k + b.k, a.d + b.d)
\* a value of type uint64: the integer modulo 2^64, in 0 .. 2^64 - 1
Uint64(a) == IF a.d >= 0 THEN Wide(a.k % 2, a.d) ELSE Wide(((a.k - 1) % 2) + 1, a.d)
\* a value of type abi.ChainEpoch (int64): the integer modulo 2^64, in -2^63 .. 2^63 - 1
ChainEpoch(a) == IF a.d >= 0 THEN Wide(((a.k + 1) % 2) - 1, a.d) ELSE Wide(a.k % 2, a.d)

\* the null block counts of an attempt (nullBlkCount uint64): the small ones
NullBlkCounts == { WideOf(n) : n \in 0..MaxNullBlk }
\* and the ones next to the ends of int64 and of uint64
LargeNullBlkCounts == { Wide(1, -1), Wide(2, -1) }

\* The state at the call Mine(ctx, base, nullBlkCount, outCh), for the null block counts given
MineCalledWith(counts) ==
    /\ SamplerIdle
    /\ GasIdle
    /\ pc = "Mine"
    /\ cancelled \in BOOLEAN
    /\ entryCancelled = cancelled
    /\ base \in TipSets
    /\ nullBlkCount \in counts
    /\ outCh = <<>>
    /\ won = FALSE
    /\ calls = <<>>
    /\ workerAddr = NoAddr
    /\ prevTicket = NoTicket
    /\ nextTicket = NoTicket
    /\ baseHeight = 0
    /\ ancestors = <<>>
    /\ electionTicket = NoTicket
    /\ postRandomness = NilRandomness
    /\ sortedSectorInfos = FALSE
    /\ candGen = IdleGen
    /\ candBranch = "none"
    /\ candidates = <<>>
    /\ sectorNum = 0
    /\ networkPower = 0
    /\ sectorSize = 0
    /\ winners = <<>>
    /\ postGen = IdleGen
    /\ postBranch = "none"
    /\ post = NilPoSt
    /\ worker = NewDefaultWorker

\* one attempt on the worker
Init == MineCalledWith(NullBlkCounts) /\ parked = NoAttempt

(* ---------------- the caller's context ---------------- *)
\* the caller cancels runCtx; it may do so at any time, also after Mine returned
Cancel ==
    /\ ~cancelled
    /\ cancelled' = TRUE
    /\ UNCHANGED <<pc, outCh, won, calls, args, samplerVars, gasVars, worker, parked, early, race1, power, winners, race2>>

(* ---------------- helpers of the synchronous steps ---------------- *)
\* a step that succeeded: logged, Mine goes on to `next`
StepOk(op, next) ==
    /\ calls' = Append(calls, Call(op, NoErr))
    /\ pc' = next
    /\ UNCHANGED <<outCh, won>>

\* mutant of StepFails: the failing step returns without sending its error
StepFails_NoOutput(op) ==
    /\ calls' = Append(calls, Call(op, ErrOf(op)))
    /\ pc' = "returned"
    /\ UNCHANGED <<outCh, won>>

\* `outCh <- Output{Err: err}; return` after a failing step
StepFails(op) ==
    /\ calls' = Append(calls, Call(op, ErrOf(op)))
    /\ outCh' = Append(outCh, Output(NilBlock, ErrOf(op)))
    /\ pc' = "returned"
    /\ UNCHANGED won

(* ---------------- Mine: validation and the synchronous steps ---------------- *)
\* mutant of MineEntry: the `return` after the bad-tipset Output is missing
MineEntry_NoReturn ==
    /\ pc = "Mine"
    /\ IF ~base.defined
         THEN outCh' = Append(outCh, Output(NilBlock, ErrBadTipSet))
         ELSE UNCHANGED outCh
    /\ pc' = "ctxErr"
    /\ UNCHANGED <<cancelled, won, calls, args, samplerVars, gasVars, worker, parked, early, race1, power, winners, race2>>

\* if !base.Defined() { outCh <- Output{Err: ...}; return }
MineEntry ==
    /\ pc = "Mine"
    /\ IF ~base.defined
         THEN /\ outCh' = Append(outCh, Output(NilBlock, ErrBadTipSet))
              /\ pc' = "returned"
         ELSE /\ pc' = "ctxErr"
              /\ UNCHANGED outCh
    /\ UNCHANGED <<cancelled, won, calls, args, samplerVars, gasVars, worker, parked, early, race1, power, winners, race2>>

\* if ctx.Err() != nil { return }
CheckCtx ==
    /\ pc = "ctxErr"
    /\ pc' = IF cancelled THEN "returned" ELSE "PowerStateView"
    /\ UNCHANGED <<cancelled, outCh, won, calls, args, samplerVars, gasVars, worker, parked, early, race1, power, winners, race2>>

\* view, err := w.api.PowerStateView(base.Key())
PowerStateView ==
    /\ pc = "PowerStateView"
    /\ \/ StepOk("PowerStateView", "MinerControlAddresses")
       \/ StepFails("PowerStateView")
    /\ UNCHANGED <<cancelled, args, samplerVars, gasVars, worker, parked, early, race1, power, winners, race2>>

\* mutant of MinerControlAddresses: the resolved worker address is kept in the
\* worker, as its signer
MinerControlAddresses_Caching ==
    /\ pc = "MinerControlAddresses"
    /\ \/ /\ StepOk("MinerControlAddresses", "MinTicket")
          /\ workerAddr' \in Addrs
          /\ worker' = [worker EXCEPT !.workerSigner = workerAddr']
       \/ /\ StepFails("MinerControlAddresses")
          /\ UNCHANGED <<workerAddr, worker>>
    /\ UNCHANGED <<cancelled, args, samplerVars, gasVars, parked, prevTicket, nextTicket, baseHeight, ancestors,
                   electionTicket, postRandomness, sortedSectorInfos,
                   race1, power, winners, race2>>

\* _, workerAddr, err := view.MinerControlAddresses(ctx, w.minerAddr)
MinerControlAddresses ==
    /\ pc = "MinerControlAddresses"
    /\ \/ /\ StepOk("MinerControlAddresses", "MinTicket")
          /\ workerAddr' \in Addrs
       \/ /\ StepFails("MinerControlAddresses")
          /\ UNCHANGED workerAddr
    /\ UNCHANGED <<cancelled, args, samplerVars, gasVars, worker, parked, prevTicket, nextTicket, baseHeight, ancestors,
                   electionTicket, postRandomness, sortedSectorInfos,
                   race1, power, winners, race2>>

\* prevTicket, err := base.MinTicket()
MinTicket ==
    /\ pc = "MinTicket"
    /\ \/ /\ StepOk("MinTicket", "NextTicket")
          /\ prevTicket' = base.minTicket
       \/ /\ StepFails("MinTicket")
          /\ UNCHANGED prevTicket
    /\ UNCHANGED <<cancelled, args, samplerVars, gasVars, worker, parked, workerAddr, nextTicket, baseHeight, ancestors,
                   electionTicket, postRandomness, sortedSectorInfos,
                   race1, power, winners, race2>>

\* nextTicket, err := w.ticketGen.NextTicket(prevTicket, workerAddr, w.workerSigner)
NextTicket ==
    /\ pc = "NextTicket"
    /\ \/ /\ StepOk("NextTicket", "Height")
          /\ nextTicket' \in Tickets
       \/ /\ StepFails("NextTicket")
          /\ UNCHANGED nextTicket
    /\ UNCHANGED <<cancelled, args, samplerVars, gasVars, worker, parked, workerAddr, prevTicket, baseHeight, ancestors,
                   electionTicket, postRandomness, sortedSectorInfos,
                   race1, power, winners, race2>>

\* baseHeight, err := base.Height()
Height ==
    /\ pc = "Height"
    /\ \/ /\ StepOk("Height", "getAncestors")
          /\ baseHeight' = base.height
       \/ /\ StepFails("Height")
          /\ UNCHANGED baseHeight
    /\ UNCHANGED <<cancelled, args, samplerVars, gasVars, worker, parked, workerAddr, prevTicket, nextTicket, ancestors,
                   electionTicket, postRandomness, sortedSectorInfos,
                   race1, power, winners, race2>>

\* the epoch argument of w.getAncestors: baseHeight+(abi.ChainEpoch(nullBlkCount+1))
\* nullBlkCount+1 is a uint64 sum, the conversion and the outer sum are int64
AncestorsEpoch(h, n) ==
    ChainEpoch(WidePlus(WideOf(h), ChainEpoch(Uint64(WidePlus(n, WideOf(1))))))

\* ancestors, err := w.getAncestors(ctx, base, baseHeight+(abi.ChainEpoch(nullBlkCount+1)))
\* the log entry keeps the epoch asked for; a tipset of the answer is modelled by its min ticket
GetAncestors ==
    /\ pc = "getAncestors"
    /\ \/ /\ calls' = Append(calls, [op |-> "getAncestors", err |-> NoErr,
                                     epoch |-> AncestorsEpoch(baseHeight, nullBlkCount)])
          /\ pc' = "SampleNthTicket"
          /\ ancestors' \in SeqsUpTo(Tickets, MaxAncestors)
          /\ UNCHANGED <<outCh, won>>
       \/ /\ StepFails("getAncestors")
          /\ UNCHANGED ancestors
    /\ UNCHANGED <<cancelled, args, samplerVars, gasVars, worker, parked, workerAddr, prevTicket, nextTicket, baseHeight,
                   electionTicket, postRandomness, sortedSectorInfos,
                   race1, power, winners, race2>>

\* sampling.SampleNthTicket(n, ancestors): the min ticket of the n-th ancestor
\* (counted from 0), an error when the list has no such element
SampleNthTicketOk(n, anc) == n < Len(anc)
SampleNthTicketValue(n, anc) == anc[n + 1]

\* electionTicket, err := sampling.SampleNthTicket(int(miner.ElectionLookback-1), ancestors)
SampleNthTicket ==
    /\ pc = "SampleNthTicket"
    /\ IF SampleNthTicketOk(ElectionLookback - 1, ancestors)
         THEN /\ StepOk("SampleNthTicket", "GeneratePoStRandomness")
              /\ electionTicket' = SampleNthTicketValue(ElectionLookback - 1, ancestors)
         ELSE /\ StepFails("SampleNthTicket")
              /\ UNCHANGED electionTicket
    /\ UNCHANGED <<cancelled, args, samplerVars, gasVars, worker, parked, workerAddr, prevTicket, nextTicket, baseHeight,
                   ancestors, postRandomness, sortedSectorInfos,
                   race1, power, winners, race2>>

\* the bytes election.GeneratePoStRandomness derives: a deterministic function
\* of the ticket, the worker address (and its signer) and the null block count
PoStRandomnessValue(ticket, addr, signer, nullCount) == <<ticket, addr, signer, nullCount>>

\* postRandomness, err := w.election.GeneratePoStRandomness(electionTicket, workerAddr, w.workerSigner, nullBlkCount)
GeneratePoStRandomness ==
    /\ pc = "GeneratePoStRandomness"
    /\ \/ /\ StepOk("GeneratePoStRandomness", "getPowerTable")
          /\ postRandomness' = PoStRandomnessValue(electionTicket, workerAddr, worker.workerSigner, nullBlkCount)
       \/ /\ StepFails("GeneratePoStRandomness")
          /\ UNCHANGED postRandomness
    /\ UNCHANGED <<cancelled, args, samplerVars, gasVars, worker, parked, workerAddr, prevTicket, nextTicket, baseHeight,
                   ancestors, electionTicket, sortedSectorInfos,
                   race1, power, winners, race2>>

\* powerTable, err := w.getPowerTable(ctx, base.Key())
\* getPowerTable fails exactly when its PowerStateView call fails
GetPowerTable ==
    /\ pc = "getPowerTable"
    /\ \/ StepOk("getPowerTable", "SortedSectorInfos")
       \/ StepFails("getPowerTable")
    /\ UNCHANGED <<cancelled, args, samplerVars, gasVars, worker, parked, early, race1, power, winners, race2>>

\* sortedSectorInfos, err := powerTable.SortedSectorInfos(ctx, w.minerAddr)
SortedSectorInfos ==
    /\ pc = "SortedSectorInfos"
    /\ \/ /\ StepOk("SortedSectorInfos", "goGenerateCandidates")
          /\ sortedSectorInfos' = TRUE
       \/ /\ StepFails("SortedSectorInfos")
          /\ UNCHANGED sortedSectorInfos
    /\ UNCHANGED <<cancelled, args, samplerVars, gasVars, worker, parked, workerAddr, prevTicket, nextTicket, baseHeight,
                   ancestors, electionTicket, postRandomness,
                   race1, power, winners, race2>>

(* ---------------- Mine: the candidate-generation race ---------------- *)
\* the result of an asynchronous call is not known when the call is logged
Pending == "pending"

\* mutant of GoGenerateCandidates: the final-proof goroutine is started
\* speculatively together with the candidate generation
GoGenerateCandidates_Speculative ==
    /\ pc = "goGenerateCandidates"
    /\ candGen' = [candGen EXCEPT !.st = "spawned"]
    /\ postGen' = [postGen EXCEPT !.st = "spawned"]
    /\ pc' = "selectCandidates"
    /\ UNCHANGED <<cancelled, outCh, won, calls, args, samplerVars, gasVars, worker, parked, early,
                   candBranch, candidates, power, winners, postBranch, post>>

\* done := make(chan []ffi.Candidate); errCh := make(chan error); go func() {...}()
GoGenerateCandidates ==
    /\ pc = "goGenerateCandidates"
    /\ candGen' = [candGen EXCEPT !.st = "spawned"]
    /\ pc' = "selectCandidates"
    /\ UNCHANGED <<cancelled, outCh, won, calls, args, samplerVars, gasVars, worker, parked, early, candBranch, candidates,
                   power, winners, race2>>

\* mutant of GenerateCandidatesCall: the goroutine calls the proof engine again
\* after its first call
GenerateCandidatesCall_Twice ==
    /\ candGen.st = "spawned"
    /\ candGen' = [candGen EXCEPT !.st = "running", !.rand = postRandomness]
    /\ calls' = calls \o <<Call("GenerateCandidates", Pending),
                           Call("GenerateCandidates", Pending)>>
    /\ UNCHANGED <<pc, cancelled, outCh, won, args, samplerVars, gasVars, worker, parked, early, candBranch, candidates,
                   power, winners, race2>>

\* goroutine: candidates, err := w.election.GenerateCandidates(postRandomness, sortedSectorInfos, w.poster)
\* (the call is made; the proof engine is now running)
GenerateCandidatesCall ==
    /\ candGen.st = "spawned"
    /\ candGen' = [candGen EXCEPT !.st = "running", !.rand = postRandomness]
    /\ calls' = Append(calls, Call("GenerateCandidates", Pending))
    /\ UNCHANGED <<pc, cancelled, outCh, won, args, samplerVars, gasVars, worker, parked, early, candBranch, candidates,
                   power, winners, race2>>

\* goroutine: the proof engine returns; the goroutine blocks in `errCh <- err`
\* or in `done <- candidates` (both channels are unbuffered)
GenerateCandidatesReturn ==
    /\ candGen.st = "running"
    /\ \/ \E e \in EngineErrors :
            candGen' = [candGen EXCEPT !.st = "sendErr", !.err = e]
       \/ \E cs \in SeqsUpTo(PartialTickets, MaxCandidates) :
            candGen' = [candGen EXCEPT !.st = "sendDone", !.cands = cs]
    /\ UNCHANGED <<pc, cancelled, outCh, won, calls, args, samplerVars, gasVars, worker, parked, early, candBranch, candidates,
                   power, winners, race2>>

\* mutant of SelectCandidatesCancelled: the cancellation is noticed only when
\* the goroutine has a result to deliver
SelectCandidatesCancelled_AfterResult ==
    /\ pc = "selectCandidates"
    /\ cancelled
    /\ candGen.st \in {"sendErr", "sendDone"}
    /\ candBranch' = "ctx.Done"
    /\ pc' = "NumSectors"
    /\ UNCHANGED <<cancelled, outCh, won, calls, args, samplerVars, gasVars, worker, parked, early, candGen, candidates,
                   power, winners, race2>>

\* mutant of SelectCandidatesCancelled: the ctx.Done case picks up the
\* candidates the goroutine holds
SelectCandidatesCancelled_KeepsResult ==
    /\ pc = "selectCandidates"
    /\ cancelled
    /\ candBranch' = "ctx.Done"
    /\ candidates' = candGen.cands
    /\ pc' = "NumSectors"
    /\ UNCHANGED <<cancelled, outCh, won, calls, args, samplerVars, gasVars, worker, parked, early, candGen,
                   power, winners, race2>>

\* select { case <-ctx.Done(): log.Infow(...) }   -- no return: Mine goes on
\* to the winner search with candidates still nil
SelectCandidatesCancelled ==
    /\ pc = "selectCandidates"
    /\ cancelled
    /\ candBranch' = "ctx.Done"
    /\ pc' = "NumSectors"
    /\ UNCHANGED <<cancelled, outCh, won, calls, args, samplerVars, gasVars, worker, parked, early, candGen, candidates,
                   power, winners, race2>>

\* mutant of SelectCandidatesErr: the `return` after forwarding the error is missing
SelectCandidatesErr_NoReturn ==
    /\ pc = "selectCandidates"
    /\ candGen.st = "sendErr"
    /\ candBranch' = "errCh"
    /\ candGen' = [candGen EXCEPT !.st = "exited"]
    /\ outCh' = Append(outCh, Output(NilBlock, candGen.err))
    /\ pc' = "NumSectors"
    /\ UNCHANGED <<cancelled, won, calls, args, samplerVars, gasVars, worker, parked, early, candidates, power, winners, race2>>

\* select { case err := <-errCh: outCh <- Output{Err: err}; return }
\* the goroutine's send completes, it returns and its deferred closes run
SelectCandidatesErr ==
    /\ pc = "selectCandidates"
    /\ candGen.st = "sendErr"
    /\ candBranch' = "errCh"
    /\ candGen' = [candGen EXCEPT !.st = "exited"]
    /\ outCh' = Append(outCh, Output(NilBlock, candGen.err))
    /\ pc' = "returned"
    /\ UNCHANGED <<cancelled, won, calls, args, samplerVars, gasVars, worker, parked, early, candidates, power, winners, race2>>

\* select { case genResult := <-done: candidates = genResult }
SelectCandidatesDone ==
    /\ pc = "selectCandidates"
    /\ candGen.st = "sendDone"
    /\ candBranch' = "done"
    /\ candGen' = [candGen EXCEPT !.st = "exited"]
    /\ candidates' = candGen.cands
    /\ pc' = "NumSectors"
    /\ UNCHANGED <<cancelled, outCh, won, calls, args, samplerVars, gasVars, worker, parked, early, power, winners, race2>>

(* ---------------- Mine: the winner search ---------------- *)
\* sectorNum, err := powerTable.NumSectors(ctx, w.minerAddr)
NumSectors ==
    /\ pc = "NumSectors"
    /\ \/ /\ StepOk("NumSectors", "Total")
          /\ sectorNum' \in SectorCounts
       \/ /\ StepFails("NumSectors")
          /\ UNCHANGED sectorNum
    /\ UNCHANGED <<cancelled, args, samplerVars, gasVars, worker, parked, early, race1, networkPower, sectorSize, winners, race2>>

\* networkPower, err := powerTable.Total(ctx)
Total ==
    /\ pc = "Total"
    /\ \/ /\ StepOk("Total", "SectorSize")
          /\ networkPower' \in NetworkPowers
       \/ /\ StepFails("Total")
          /\ UNCHANGED networkPower
    /\ UNCHANGED <<cancelled, args, samplerVars, gasVars, worker, parked, early, race1, sectorNum, sectorSize, winners, race2>>

\* sectorSize, err := powerTable.SectorSize(ctx, w.minerAddr)
SectorSize ==
    /\ pc = "SectorSize"
    /\ \/ /\ StepOk("SectorSize", "winners")
          /\ sectorSize' \in SectorSizes
       \/ /\ StepFails("SectorSize")
          /\ UNCHANGED sectorSize
    /\ UNCHANGED <<cancelled, args, samplerVars, gasVars, worker, parked, early, race1, sectorNum, networkPower, winners, race2>>

\* hasher.Bytes(candidate.PartialTicket[:]); challengeTicket := hasher.Hash()
\* the challenge is a digest of the candidate's partial ticket
ChallengeTicket(partialTicket) == (5 * partialTicket + 3) % 8

\* election.CandidateWins(challengeTicket, sectorNum, faultNum, networkPower, sectorSize):
\* a public deterministic predicate of its five arguments
CandidateWins(challengeTicket, sectors, faults, netPower, size) ==
    challengeTicket * netPower < (sectors - faults) * size

\* for _, candidate := range candidates { if w.election.CandidateWins(challengeTicket,
\*     sectorNum, 0, networkPower.Uint64(), uint64(sectorSize)) { winners = append(winners, candidate) } }
RECURSIVE Winners(_, _, _, _)
Winners(cands, sectors, netPower, size) ==
    IF cands = <<>> THEN <<>>
    ELSE LET rest == Winners(SubSeq(cands, 1, Len(cands) - 1), sectors, netPower, size)
             c == cands[Len(cands)]
         IN  IF CandidateWins(ChallengeTicket(c), sectors, 0, netPower, size)
               THEN Append(rest, c)
               ELSE rest

\* mutant of FindWinners: the `if len(winners) == 0 { return }` is missing
FindWinners_NoReturn ==
    /\ pc = "winners"
    /\ winners' = Winners(candidates, sectorNum, networkPower, sectorSize)
    /\ pc' = "goGeneratePoSt"
    /\ UNCHANGED <<cancelled, outCh, won, calls, args, samplerVars, gasVars, worker, parked, early, race1, power, race2>>

\* mutant of FindWinners: the winners are collected in the reverse order
FindWinners_Reversed ==
    /\ pc = "winners"
    /\ winners' = LET w == Winners(candidates, sectorNum, networkPower, sectorSize)
                  IN  [i \in 1..Len(w) |-> w[Len(w) + 1 - i]]
    /\ pc' = IF Len(winners') = 0 THEN "returned" ELSE "goGeneratePoSt"
    /\ UNCHANGED <<cancelled, outCh, won, calls, args, samplerVars, gasVars, worker, parked, early, race1, power, race2>>

\* the loop over the candidates, then `if len(winners) == 0 { return }`
FindWinners ==
    /\ pc = "winners"
    /\ winners' = Winners(candidates, sectorNum, networkPower, sectorSize)
    /\ pc' = IF Len(winners') = 0 THEN "returned" ELSE "goGeneratePoSt"
    /\ UNCHANGED <<cancelled, outCh, won, calls, args, samplerVars, gasVars, worker, parked, early, race1, power, race2>>

(* ---------------- Mine: the final-proof race ---------------- *)
\* postDone := make(chan []byte); errCh = make(chan error); go func() {...}()
GoGeneratePoSt ==
    /\ pc = "goGeneratePoSt"
    /\ postGen' = [postGen EXCEPT !.st = "spawned"]
    /\ pc' = "selectPoSt"
    /\ UNCHANGED <<cancelled, outCh, won, calls, args, samplerVars, gasVars, worker, parked, early, race1, power, winners,
                   postBranch, post>>

\* goroutine: post, err := w.election.GeneratePoSt(sortedSectorInfos, postRandomness, winners, w.poster)
GeneratePoStCall ==
    /\ postGen.st = "spawned"
    /\ postGen' = [postGen EXCEPT !.st = "running", !.rand = postRandomness,
                                  !.winners = winners]
    /\ calls' = Append(calls, Call("GeneratePoSt", Pending))
    /\ UNCHANGED <<pc, cancelled, outCh, won, args, samplerVars, gasVars, worker, parked, early, race1, power, winners,
                   postBranch, post>>

\* goroutine: the proof engine returns; the goroutine blocks in `errCh <- err`
\* or in `postDone <- post`
GeneratePoStReturn ==
    /\ postGen.st = "running"
    /\ \/ \E e \in EngineErrors :
            postGen' = [postGen EXCEPT !.st = "sendErr", !.err = e]
       \/ \E p \in PoStProofs :
            postGen' = [postGen EXCEPT !.st = "sendDone", !.proof = p]
    /\ UNCHANGED <<pc, cancelled, outCh, won, calls, args, samplerVars, gasVars, worker, parked, early, race1, power, winners,
                   postBranch, post>>

\* select { case <-ctx.Done(): log.Infow(...) }   -- no return: Mine goes on
\* to assemble a block with post still nil
SelectPoStCancelled ==
    /\ pc = "selectPoSt"
    /\ cancelled
    /\ postBranch' = "ctx.Done"
    /\ pc' = "Generate"
    /\ UNCHANGED <<cancelled, outCh, won, calls, args, samplerVars, gasVars, worker, parked, early, race1, power, winners,
                   postGen, post>>

\* mutant of SelectPoStErr: the error is logged but neither sent nor returned on
SelectPoStErr_FallThrough ==
    /\ pc = "selectPoSt"
    /\ postGen.st = "sendErr"
    /\ postBranch' = "errCh"
    /\ postGen' = [postGen EXCEPT !.st = "exited"]
    /\ pc' = "Generate"
    /\ UNCHANGED <<cancelled, outCh, won, calls, args, samplerVars, gasVars, worker, parked, early, race1, power, winners, post>>

\* select { case err := <-errCh: outCh <- Output{Err: err}; return }
SelectPoStErr ==
    /\ pc = "selectPoSt"
    /\ postGen.st = "sendErr"
    /\ postBranch' = "errCh"
    /\ postGen' = [postGen EXCEPT !.st = "exited"]
    /\ outCh' = Append(outCh, Output(NilBlock, postGen.err))
    /\ pc' = "returned"
    /\ UNCHANGED <<cancelled, won, calls, args, samplerVars, gasVars, worker, parked, early, race1, power, winners, post>>

\* select { case postOut := <-postDone: post = postOut }
SelectPoStDone ==
    /\ pc = "selectPoSt"
    /\ postGen.st = "sendDone"
    /\ postBranch' = "postDone"
    /\ postGen' = [postGen EXCEPT !.st = "exited"]
    /\ post' = postGen.proof
    /\ pc' = "Generate"
    /\ UNCHANGED <<cancelled, outCh, won, calls, args, samplerVars, gasVars, worker, parked, early, race1, power, winners>>

(* ---------------- Mine: block assembly ---------------- *)
\* postInfo := block.NewEPoStInfo(post, postRandomness, block.FromFFICandidates(winners...)...)
\* w.Generate(ctx, base, nextTicket, abi.ChainEpoch(nullBlkCount), postInfo):
\* the block is modelled by the arguments it is built from
NewBlock(ticket, nullCount, proof, randomness, wins) ==
    [ticket |-> ticket, nullBlkCount |-> nullCount, post |-> proof,
     postRandomness |-> randomness, winners |-> wins]

\* next, err := w.Generate(...); outCh <- NewOutput(next, err); won = true; return
Generate ==
    /\ pc = "Generate"
    /\ \/ /\ calls' = Append(calls, Call("Generate", NoErr))
          /\ outCh' = Append(outCh,
                 Output(NewBlock(nextTicket, ChainEpoch(nullBlkCount), post, postRandomness, winners),
                        NoErr))
       \/ /\ calls' = Append(calls, Call("Generate", ErrOf("Generate")))
          /\ outCh' = Append(outCh, Output(NilBlock, ErrOf("Generate")))
    /\ won' = TRUE
    /\ pc' = "returned"
    /\ UNCHANGED <<cancelled, args, samplerVars, gasVars, worker, parked, early, race1, power, winners, race2>>

(* ---------------- the specification ---------------- *)
Next ==
    \/ Cancel
    \/ MineEntry
    \/ CheckCtx
    \/ PowerStateView
    \/ MinerControlAddresses
    \/ MinTicket
    \/ NextTicket
    \/ Height
    \/ GetAncestors
    \/ SampleNthTicket
    \/ GeneratePoStRandomness
    \/ GetPowerTable
    \/ SortedSectorInfos
    \/ GoGenerateCandidates
    \/ GenerateCandidatesCall
    \/ GenerateCandidatesReturn
    \/ SelectCandidatesCancelled
    \/ SelectCandidatesErr
    \/ SelectCandidatesDone
    \/ NumSectors
    \/ Total
    \/ SectorSize
    \/ FindWinners
    \/ GoGeneratePoSt
    \/ GeneratePoStCall
    \/ GeneratePoStReturn
    \/ SelectPoStCancelled
    \/ SelectPoStErr
    \/ SelectPoStDone
    \/ Generate

Spec == Init /\ [][Next]_vars

(* ---------------- the specification with its scheduling ---------------- *)
\* the steps of the goroutine that runs Mine: every one of them is a statement
\* that completes once it can (a collaborator call that returns, a send on
\* outCh that is received, a select with a ready case)
MineStep ==
    \/ MineEntry
    \/ CheckCtx
    \/ PowerStateView
    \/ MinerControlAddresses
    \/ MinTicket
    \/ NextTicket
    \/ Height
    \/ GetAncestors
    \/ SampleNthTicket
    \/ GeneratePoStRandomness
    \/ GetPowerTable
    \/ SortedSectorInfos
    \/ GoGenerateCandidates
    \/ SelectCandidatesCancelled
    \/ SelectCandidatesErr
    \/ SelectCandidatesDone
    \/ NumSectors
    \/ Total
    \/ SectorSize
    \/ FindWinners
    \/ GoGeneratePoSt
    \/ SelectPoStCancelled
    \/ SelectPoStErr
    \/ SelectPoStDone
    \/ Generate

\* the Go scheduler runs every goroutine that can run: Mine makes its next
\* step, and a goroutine started with `go` makes its proof engine call.  When
\* the proof engine returns and when the caller cancels is left open.
\* Whether an attempt and its goroutines come to an end does not depend on the
\* height or the ticket of a defined base nor on the null block count: the
\* attempts start from one defined base and from the undefined one.
LiveInit ==
    /\ Init
    /\ base.height = 0
    /\ base.minTicket \in {NoTicket, "tkA"}
    /\ nullBlkCount = WideOf(0)

LiveSpec ==
    /\ LiveInit
    /\ [][Next]_vars
    /\ WF_vars(MineStep)
    /\ WF_vars(GenerateCandidatesCall)
    /\ WF_vars(GeneratePoStCall)

\* Mine attempts whose null block count may be next to the ends of int64 and
\* of uint64, from one defined base
WidthInit ==
    /\ MineCalledWith(NullBlkCounts \cup LargeNullBlkCounts)
    /\ parked = NoAttempt
    /\ base.height = 0
    /\ base.minTicket = "tkA"

WidthSpec == WidthInit /\ [][Next]_vars

(* ---------------- two attempts on one worker ---------------- *)
\* The locals, the arguments, the context and the output channel of the attempt
\* that is taking steps
Attempt ==
    [pc |-> pc, cancelled |-> cancelled, entryCancelled |-> entryCancelled,
     base |-> base, nullBlkCount |-> nullBlkCount, outCh |-> outCh, won |-> won,
     calls |-> calls, workerAddr |-> workerAddr, prevTicket |-> prevTicket,
     nextTicket |-> nextTicket, baseHeight |-> baseHeight, ancestors |-> ancestors,
     electionTicket |-> electionTicket, postRandomness |-> postRandomness,
     sortedSectorInfos |-> sortedSectorInfos, candGen |-> candGen,
     candBranch |-> candBranch, candidates |-> candidates, sectorNum |-> sectorNum,
     networkPower |-> networkPower, sectorSize |-> sectorSize, winners |-> winners,
     postGen |-> postGen, postBranch |-> postBranch, post |-> post]

\* the same at the call Mine(ctx, b, n, outCh) with a context that is cancelled or not (c)
CalledAttempt(c, b, n) ==
    [pc |-> "Mine", cancelled |-> c, entryCancelled |-> c, base |-> b,
     nullBlkCount |-> n, outCh |-> <<>>, won |-> FALSE, calls |-> <<>>,
     workerAddr |-> NoAddr, prevTicket |-> NoTicket, nextTicket |-> NoTicket,
     baseHeight |-> 0, ancestors |-> <<>>, electionTicket |-> NoTicket,
     postRandomness |-> NilRandomness, sortedSectorInfos |-> FALSE,
     candGen |-> IdleGen, candBranch |-> "none", candidates |-> <<>>, sectorNum |-> 0,
     networkPower |-> 0, sectorSize |-> 0, winners |-> <<>>, postGen |-> IdleGen,
     postBranch |-> "none", post |-> NilPoSt]

\* The scheduler turns from the goroutines of one attempt to those of the
\* other, between any two steps: the attempt that ran is parked as it stands
\* and the parked one goes on where it was. Only the worker is shared.
Switch ==
    /\ parked.id # 0
    /\ parked' = [id |-> 3 - parked.id, st |-> Attempt]
    /\ pc' = parked.st.pc
    /\ cancelled' = parked.st.cancelled
    /\ entryCancelled' = parked.st.entryCancelled
    /\ base' = parked.st.base
    /\ nullBlkCount' = parked.st.nullBlkCount
    /\ outCh' = parked.st.outCh
    /\ won' = parked.st.won
    /\ calls' = parked.st.calls
    /\ workerAddr' = parked.st.workerAddr
    /\ prevTicket' = parked.st.prevTicket
    /\ nextTicket' = parked.st.nextTicket
    /\ baseHeight' = parked.st.baseHeight
    /\ ancestors' = parked.st.ancestors
    /\ electionTicket' = parked.st.electionTicket
    /\ postRandomness' = parked.st.postRandomness
    /\ sortedSectorInfos' = parked.st.sortedSectorInfos
    /\ candGen' = parked.st.candGen
    /\ candBranch' = parked.st.candBranch
    /\ candidates' = parked.st.candidates
    /\ sectorNum' = parked.st.sectorNum
    /\ networkPower' = parked.st.networkPower
    /\ sectorSize' = parked.st.sectorSize
    /\ winners' = parked.st.winners
    /\ postGen' = parked.st.postGen
    /\ postBranch' = parked.st.postBranch
    /\ post' = parked.st.post
    /\ UNCHANGED <<worker, samplerVars, gasVars>>

\* the attempt taking steps: 1 or 2, the parked one being the other
Running == 3 - parked.id

\* Collaborators whose successful calls return one value each, the same to
\* both attempts: the results kept in the locals are these or still unset
FixedResults ==
    /\ nextTicket \in {NoTicket, "tkA"}
    /\ ancestors \in {<<>>, <<"tkA">>}
    /\ candGen.cands \in {<<>>, <<0>>}
    /\ candGen.err \in {NoErr, "engineErrA"}
    /\ postGen.err \in {NoErr, "engineErrA"}
    /\ sectorNum \in {0, 4}
    /\ networkPower \in {0, 1}

\* two calls of Mine on the worker, each with its own context and output
\* channel, from the same defined base and with different null block counts
ConcInit ==
    /\ MineCalledWith({WideOf(0)})
    /\ base.defined /\ base.height = 0 /\ base.minTicket = "tkA"
    /\ parked \in { [id |-> 2, st |-> CalledAttempt(c, base, WideOf(1))] : c \in BOOLEAN }

ConcNext ==
    \/ Next /\ FixedResults'
    \/ Switch

ConcSpec == ConcInit /\ [][ConcNext]_vars


(* ---------------- properties ---------------- *)
Called(op) == \E i \in DOMAIN calls : calls[i].op = op
Succeeded(op) == \E i \in DOMAIN calls : calls[i].op = op /\ calls[i].err = NoErr
NoGoroutine == candGen.st = "none" /\ postGen.st = "none"
\* the proof engine returned an error to the goroutine g
EngineFailed(g) == g.st \in {"sendErr", "exited"} /\ g.err # NoErr

\* the steps Mine makes itself, before it starts the candidate generation
SyncSteps == {"PowerStateView", "MinerControlAddresses", "MinTicket", "NextTicket",
              "Height", "getAncestors", "SampleNthTicket", "GeneratePoStRandomness",
              "getPowerTable", "SortedSectorInfos"}

\* C1: whatever the collaborators answer, whenever the proof engine completes
\* and whenever the context is cancelled, at most one Output is sent on outCh.
C1_AtMostOneOutput == Len(outCh) <= 1

\* C1 witness: an attempt that was cancelled on its way and still sent its one Output
C1_Witness == pc = "returned" /\ cancelled /\ ~entryCancelled /\ Len(outCh) = 1

\* C2: once the final-proof select took its ctx.Done case, Mine returns false
\* and has sent no Output.
C2_PoStCancelSilent ==
    (pc = "returned" /\ postBranch = "ctx.Done") => (outCh = <<>> /\ won = FALSE)

\* C3: once the candidate-generation select took its ctx.Done case, Mine
\* returns false and has sent no Output, not even an error of a later read.
C3_CandidatesCancelSilent ==
    (pc = "returned" /\ candBranch = "ctx.Done") => (outCh = <<>> /\ won = FALSE)

\* C4: invoked with a context that is already cancelled, Mine sends no Output,
\* makes no call and starts no goroutine, and returns false, whatever the base is.
C4_CancelledAtEntrySilent ==
    entryCancelled => (outCh = <<>> /\ calls = <<>> /\ NoGoroutine /\ won = FALSE)

C6_SyncFailureTerminal ==
    \A i \in DOMAIN calls :
        (calls[i].op \in SyncSteps /\ calls[i].err # NoErr) =>
            /\ i = Len(calls)
            /\ pc = "returned"
            /\ outCh = <<Output(NilBlock, calls[i].err)>>
            /\ won = FALSE
            /\ NoGoroutine
            /\ ~Called("Generate")
            /\ \A j \in DOMAIN calls : calls[j].op = calls[i].op => j = i

\* C6 witness: the last of the synchronous steps failed
C6_Witness ==
    /\ pc = "returned"
    /\ Len(calls) = 10
    /\ calls[10] = Call("SortedSectorInfos", ErrOf("SortedSectorInfos"))

\* no candidate of the received list passes the win test
NoCandidateWins ==
    \A i \in DOMAIN candidates :
        ~CandidateWins(ChallengeTicket(candidates[i]), sectorNum, 0, networkPower, sectorSize)

\* C7: when the candidates were received, the three power reads succeeded and
\* no candidate wins, Mine sends no Output, starts no GeneratePoSt, does not
\* call the block constructor and returns false.
C7_NoWinSilent ==
    (candBranch = "done" /\ Succeeded("SectorSize") /\ NoCandidateWins) =>
        /\ pc \in {"winners", "returned"}
        /\ outCh = <<>>
        /\ won = FALSE
        /\ postGen.st = "none"
        /\ ~Called("GeneratePoSt")
        /\ ~Called("Generate")

\* C7 witness: Mine has returned after a non-empty candidate list lost
C7_Witness ==
    /\ pc = "returned"
    /\ candBranch = "done"
    /\ Succeeded("SectorSize")
    /\ candidates # <<>>
    /\ NoCandidateWins

\* what C8 asks of an attempt whose proof engine call of goroutine g failed
EngineErrorForwarded(g, waiting) ==
    /\ pc \in {waiting, "returned"}
    /\ ~Called("Generate")
    /\ won = FALSE
    /\ pc = "returned" => outCh = <<Output(NilBlock, g.err)>>

\* C8: with the context not cancelled, when GenerateCandidates or GeneratePoSt
\* returned an error, Mine goes no further than the select of that race, and
\* when it has returned it has sent exactly one Output, carrying exactly that
\* error and no block, has not called the block constructor and returns false.
C8_EngineErrorForwarded ==
    ~cancelled =>
        /\ EngineFailed(candGen) => EngineErrorForwarded(candGen, "selectCandidates")
        /\ EngineFailed(postGen) => EngineErrorForwarded(postGen, "selectPoSt")

\* C8 witness: Mine has returned after GeneratePoSt failed, never cancelled
C8_Witness == pc = "returned" /\ ~cancelled /\ EngineFailed(postGen)

\* C9: Mine returns true exactly when it sent an Output with a new block and
\* no error; with an error Output or with no Output it returns false.
C9_WonIffBlock ==
    pc = "returned" =>
        (won <=> (Len(outCh) = 1 /\ outCh[1].NewBlock # NilBlock /\ outCh[1].Err = NoErr))

\* C10: every block sent as Output is built from the ticket NextTicket
\* returned, the null block count, the proof GeneratePoSt returned, the
\* post-randomness both proof engine calls were given, and the non-empty
\* winner set.
C10_BlockContents ==
    \A i \in DOMAIN outCh :
        outCh[i].NewBlock # NilBlock =>
            /\ Succeeded("NextTicket")
            /\ outCh[i].NewBlock.ticket = nextTicket
            /\ outCh[i].NewBlock.nullBlkCount = ChainEpoch(nullBlkCount)
            /\ postGen.st = "exited" /\ postGen.err = NoErr
            /\ outCh[i].NewBlock.post = postGen.proof
            /\ outCh[i].NewBlock.postRandomness = candGen.rand
            /\ outCh[i].NewBlock.postRandomness = postGen.rand
            /\ outCh[i].NewBlock.winners = winners
            /\ winners # <<>>

(* ======================================================================= *)
(* The chain sampler (Sampler, SamplerAtHead)                               *)
(* ======================================================================= *)
(* ---------------- bounds of the sampler model ---------------- *)
\* tipsets of the chain, genesis included
MaxChain == 3
\* length of a run of null epochs between two tipsets
MaxGap == 1

\* the epochs sampled: before genesis, on the chain, in its gaps and after its head
Epochs == -1 .. ((MaxChain - 1) * (1 + MaxGap) + 1)

\* the mining worker, not running
MineIdle ==
    /\ pc = "Mine" /\ cancelled = FALSE /\ entryCancelled = FALSE
    /\ base = UndefTipSet /\ nullBlkCount = WideOf(0)
    /\ worker = NewDefaultWorker /\ parked = NoAttempt
    /\ outCh = <<>> /\ won = FALSE /\ calls = <<>>
    /\ workerAddr = NoAddr /\ prevTicket = NoTicket /\ nextTicket = NoTicket
    /\ baseHeight = 0 /\ ancestors = <<>> /\ electionTicket = NoTicket
    /\ postRandomness = NilRandomness /\ sortedSectorInfos = FALSE
    /\ candGen = IdleGen /\ candBranch = "none" /\ candidates = <<>>
    /\ sectorNum = 0 /\ networkPower = 0 /\ sectorSize = 0 /\ winners = <<>>
    /\ postGen = IdleGen /\ postBranch = "none" /\ post = NilPoSt

(* ---------------- the chain store behind the TipSetProvider ---------------- *)
\* the chains: tipset i+1 is the child of tipset i, tipset 1 is the genesis at
\* height 0, heights grow by 1 plus the null epochs in between
RECURSIVE HeightsFrom(_)
HeightsFrom(gaps) ==
    IF gaps = <<>> THEN <<0>>
    ELSE LET below == HeightsFrom(SubSeq(gaps, 1, Len(gaps) - 1))
         IN  Append(below, below[Len(below)] + 1 + gaps[Len(gaps)])

\* the VRF proof of the min ticket of tipset i, a byte string: every tipset
\* has its own
VRFProof(i) == <<48 + i>>

\* between two consecutive tipsets there is a null run of MaxGap epochs, or none
ChainsOfLen(k) ==
    { [i \in 1..k |-> [height |-> HeightsFrom(g)[i], vrfProof |-> VRFProof(i)]] :
          g \in [1..(k - 1) -> {0, MaxGap}] }

Chains == {<<>>} \cup UNION { ChainsOfLen(k) : k \in 1..MaxChain }

\* the TipSetProvider resolves every key of the chain, or all but one
Stores ==
    UNION { { [tipsets |-> ts, unreadable |-> u] :
                u \in {{}} \cup { {k} : k \in DOMAIN ts } } :
            ts \in Chains }

\* TipSetProvider.GetTipSet(key) succeeds
Resolves(st, key) == key \in DOMAIN st.tipsets /\ key \notin st.unreadable
\* TipSet.Parents(): empty for the genesis tipset
ParentKey(key) == key - 1
\* TipSet.Height(), TipSet.MinTicket().VRFProof
HeightOf(st, key) == st.tipsets[key].height
VRFProofOf(st, key) == st.tipsets[key].vrfProof

(* ---------------- chain.IterAncestors ---------------- *)
\* the iterator holds the current tipset; EmptyKey stands for the undefined
\* tipset it holds once it is complete
IterAncestors(start) == [value |-> start]
IterComplete(it) == it.value = EmptyKey
IterValue(it) == it.value
\* Next(): the parent of the current tipset is resolved; past the genesis the
\* iterator completes without a read; a parent that does not resolve is an error
IterNext(st, it) ==
    LET parent == ParentKey(it.value)
    IN  IF parent = EmptyKey
          THEN [it |-> [value |-> EmptyKey], err |-> NilError, reads |-> <<>>]
          ELSE IF Resolves(st, parent)
                 THEN [it |-> [value |-> parent], err |-> NilError, reads |-> <<parent>>]
                 ELSE [it |-> [value |-> EmptyKey], err |-> GetTipSetError(parent),
                       reads |-> <<parent>>]

(* ---------------- Sampler.findTipsetAtEpoch ---------------- *)
\* for ; !iterator.Complete(); err = iterator.Next() {
\*     if err != nil { return }
\*     ts = iterator.Value(); h, err = ts.Height(); if h <= epoch { break } }
\* return      -- ts and err are the named results
AtOrBelow_Strict(h, epoch) == h < epoch

AtOrBelow_Exact(h, epoch) == h = epoch

\* if h <= epoch { break }
AtOrBelow(h, epoch) == h <= epoch

RECURSIVE FindLoop(_, _, _, _, _, _)
FindLoop(st, it, ts, err, epoch, reads) ==
    IF IterComplete(it) THEN [ts |-> ts, err |-> err, reads |-> reads]
    ELSE IF err # NilError THEN [ts |-> ts, err |-> err, reads |-> reads]
    ELSE IF AtOrBelow(HeightOf(st, IterValue(it)), epoch)
           THEN [ts |-> IterValue(it), err |-> NilError, reads |-> reads]
           ELSE LET n == IterNext(st, it)
                IN  FindLoop(st, n.it, IterValue(it), n.err, epoch, reads \o n.reads)

\* mutant of findTipsetAtEpoch: the iterator is advanced once more after the
\* tipset was found
findTipsetAtEpoch_Eager(st, start, epoch) ==
    LET walk == FindLoop(st, IterAncestors(start), EmptyKey, NilError, epoch, <<>>)
        n == IterNext(st, IterAncestors(walk.ts))
    IN  IF walk.err = NilError /\ walk.ts # EmptyKey
          THEN [ts |-> walk.ts, err |-> n.err, reads |-> walk.reads \o n.reads]
          ELSE walk

\* mutant of findTipsetAtEpoch: no walk, the start tipset is the answer
findTipsetAtEpoch_NoWalk(st, start, epoch) ==
    [ts |-> start, err |-> NilError, reads |-> <<>>]

\* mutant of findTipsetAtEpoch: the tipset found is resolved a second time
findTipsetAtEpoch_Revisit(st, start, epoch) ==
    LET walk == FindLoop(st, IterAncestors(start), EmptyKey, NilError, epoch, <<>>)
    IN  IF walk.err = NilError /\ walk.ts # EmptyKey
          THEN [walk EXCEPT !.reads = walk.reads \o <<walk.ts>>]
          ELSE walk

findTipsetAtEpoch_LastRead(st, start, epoch) ==
    LET walk == FindLoop(st, IterAncestors(start), EmptyKey, NilError, epoch, <<>>)
    IN  [ts |-> walk.ts, err |-> NilError, reads |-> walk.reads]

findTipsetAtEpoch(st, start, epoch) ==
    FindLoop(st, IterAncestors(start), EmptyKey, NilError, epoch, <<>>)

(* ---------------- Sampler.Sample ---------------- *)
\* binary.Write(&buf, binary.BigEndian, epoch): the n low bytes of the two's
\* complement of epoch, most significant first (abi.ChainEpoch is an int64)
RECURSIVE BigEndian(_, _)
BigEndian(epoch, n) ==
    IF n = 0 THEN <<>>
    ELSE Append(BigEndian(epoch \div 256, n - 1), epoch % 256)

\* blake2b.Sum256: a collision-free digest
Blake2b(bytes) == <<"blake2b-256", bytes>>

DrawSeed_NoEpoch(vrfProof, epoch) == Blake2b(<<Blake2b(vrfProof), BigEndian(0, 8)>>)

\* buf.Write(vrfDigest[:]); binary.Write(&buf, binary.BigEndian, epoch);
\* bufHash := blake2b.Sum256(buf.Bytes())
\* the buffer is the 32 bytes of the digest followed by the 8 bytes of the epoch
DrawSeed(vrfProof, epoch) == Blake2b(<<Blake2b(vrfProof), BigEndian(epoch, 8)>>)

Sample_GenesisForEmptyKey(st, head, epoch) ==
    LET start == IF head = EmptyKey /\ Resolves(st, 1) THEN 1 ELSE head
    IN  IF start # EmptyKey
          THEN IF ~Resolves(st, start)
                 THEN [seed |-> NoSeed, err |-> GetTipSetError(start), reads |-> <<start>>]
                 ELSE LET tip == findTipsetAtEpoch(st, start, epoch)
                      IN  IF tip.err # NilError
                            THEN [seed |-> NoSeed, err |-> tip.err,
                                  reads |-> <<start>> \o tip.reads]
                            ELSE [seed |-> DrawSeed(VRFProofOf(st, tip.ts), epoch),
                                  err |-> NilError, reads |-> <<start>> \o tip.reads]
          ELSE [seed |-> DrawSeed(<<>>, epoch), err |-> NilError, reads |-> <<>>]

\* Sampler.Sample(ctx, head, epoch): the seed, the error and the keys read
Sample(st, head, epoch) ==
    IF head # EmptyKey
      THEN IF ~Resolves(st, head)
             THEN [seed |-> NoSeed, err |-> GetTipSetError(head), reads |-> <<head>>]
             ELSE LET tip == findTipsetAtEpoch(st, head, epoch)
                  IN  IF tip.err # NilError
                        THEN [seed |-> NoSeed, err |-> tip.err,
                              reads |-> <<head>> \o tip.reads]
                        ELSE [seed |-> DrawSeed(VRFProofOf(st, tip.ts), epoch),
                              err |-> NilError, reads |-> <<head>> \o tip.reads]
      ELSE [seed |-> DrawSeed(<<>>, epoch), err |-> NilError, reads |-> <<>>]

\* the record of a call: who was called, with what, what came back, and
\* whether the call before it had the same arguments
Sampled(via, head, epoch, res) ==
    [via |-> via, head |-> head, epoch |-> epoch,
     seed |-> res.seed, err |-> res.err, reads |-> res.reads,
     again |-> sampled.via # "none" /\ sampled.head = head /\ sampled.epoch = epoch]

\* the keys a caller may pass as head: the empty key and the keys of the chain
HeadKeys == 0 .. Len(store.tipsets)

SampleCall_Repairing ==
    /\ \E head \in HeadKeys, epoch \in Epochs :
          sampled' = Sampled("Sampler", head, epoch, Sample(store, head, epoch))
    /\ store' = [store EXCEPT !.unreadable = {}]
    /\ UNCHANGED <<samplerAtHead, mineVars, gasVars>>

\* a call of sampler.Sample(ctx, head, epoch)
SampleCall ==
    /\ \E head \in HeadKeys, epoch \in Epochs :
          sampled' = Sampled("Sampler", head, epoch, Sample(store, head, epoch))
    /\ UNCHANGED <<store, samplerAtHead, mineVars, gasVars>>

\* NewSamplerAtHead(reader, head)
NewSamplerAtHead ==
    /\ ~samplerAtHead.bound
    /\ \E head \in HeadKeys : samplerAtHead' = [bound |-> TRUE, head |-> head]
    /\ UNCHANGED <<store, sampled, mineVars, gasVars>>

SamplerAtHeadSample_LatestHead ==
    /\ samplerAtHead.bound
    /\ \E epoch \in Epochs :
          sampled' = Sampled("SamplerAtHead", Len(store.tipsets), epoch,
                             Sample(store, Len(store.tipsets), epoch))
    /\ UNCHANGED <<store, samplerAtHead, mineVars, gasVars>>

\* SamplerAtHead.Sample(ctx, epoch): return s.sampler.Sample(ctx, s.head, epoch)
SamplerAtHeadSample ==
    /\ samplerAtHead.bound
    /\ \E epoch \in Epochs :
          sampled' = Sampled("SamplerAtHead", samplerAtHead.head, epoch,
                             Sample(store, samplerAtHead.head, epoch))
    /\ UNCHANGED <<store, samplerAtHead, mineVars, gasVars>>

SamplerInit ==
    /\ MineIdle
    /\ GasIdle
    /\ store \in Stores
    /\ samplerAtHead = NoSampler
    /\ sampled = NoSample

SamplerNext ==
    \/ SampleCall
    \/ NewSamplerAtHead
    \/ SamplerAtHeadSample

SamplerSpec == SamplerInit /\ [][SamplerNext]_vars

(* ---------------- C11: the order of the phases ---------------- *)
\* the steps Mine makes itself, in the order of the source
MineOrder ==
    <<"PowerStateView", "MinerControlAddresses", "MinTicket", "NextTicket", "Height",
      "getAncestors", "SampleNthTicket", "GeneratePoStRandomness", "getPowerTable",
      "SortedSectorInfos", "NumSectors", "Total", "SectorSize", "Generate">>

\* the calls the two goroutines make
EngineCalls == {"GenerateCandidates", "GeneratePoSt"}
IndexOf(op) == CHOOSE i \in DOMAIN calls : calls[i].op = op
\* the calls Mine makes itself, in the order it made them
IsOwnCall(c) == c.op \notin EngineCalls
OwnCalls == SelectSeq(calls, IsOwnCall)

MaxGasLimit == 3
\* the largest amount of one charge, and of one refund (a negative amount)
MaxCharge == 3

\* gas.Unit is a big integer: there is no overflow, and it may be negative
GasLimits == -1 .. MaxGasLimit
GasAmounts == (0 - MaxCharge) .. MaxCharge

\* NewGasTracker(limit)
NewGasTracker(limit) == [gasLimit |-> limit, gasConsumed |-> 0]

TryChargeOutcome_AtLimitFails(limit, consumed, amount) ==
    LET aux == consumed + amount
    IN  IF aux >= limit
          THEN [gasConsumed |-> limit, ok |-> FALSE]
          ELSE [gasConsumed |-> aux, ok |-> TRUE]

\* mutant of TryChargeOutcome: a charge that fails leaves the consumed gas as it was
TryChargeOutcome_FailKeepsConsumed(limit, consumed, amount) ==
    LET aux == consumed + amount
    IN  IF aux > limit
          THEN [gasConsumed |-> consumed, ok |-> FALSE]
          ELSE [gasConsumed |-> aux, ok |-> TRUE]

\* aux := big.Add(t.gasConsumed, amount)
\* if aux.GreaterThan(t.gasLimit) { t.gasConsumed = t.gasLimit; return false }
\* t.gasConsumed = gas.Unit(aux); return true
TryChargeOutcome(limit, consumed, amount) ==
    LET aux == consumed + amount
    IN  IF aux > limit
          THEN [gasConsumed |-> limit, ok |-> FALSE]
          ELSE [gasConsumed |-> aux, ok |-> TRUE]

\* GasTracker.GasConsumed()
GasConsumed == gasConsumed
\* GasTracker.RemainingGas()
RemainingGas == gasLimit - gasConsumed

\* refunds are followed only while the consumed gas stays within the model
WithinGasModel(amount) == gasConsumed + amount >= 0 - MaxGasLimit

\* a call of t.TryCharge(amount)
TryCharge ==
    /\ \E amount \in GasAmounts :
          /\ WithinGasModel(amount)
          /\ LET out == TryChargeOutcome(gasLimit, gasConsumed, amount)
             IN  /\ gasConsumed' = out.gasConsumed
                 /\ charged' = [op |-> "TryCharge", amount |-> amount,
                                before |-> GasConsumed, ok |-> out.ok,
                                refunded |-> charged.refunded \/ amount < 0,
                                failedBefore |-> charged.failedBefore \/ ~charged.ok,
                                abort |-> NoAbort]
    /\ UNCHANGED <<gasLimit, mineVars, samplerVars>>

Charge_AbortLeavesTracker ==
    /\ \E amount \in GasAmounts :
          /\ WithinGasModel(amount)
          /\ LET out == TryChargeOutcome(gasLimit, gasConsumed, amount)
             IN  /\ gasConsumed' = IF out.ok THEN out.gasConsumed ELSE gasConsumed
                 /\ charged' = [op |-> "Charge", amount |-> amount,
                                before |-> GasConsumed, ok |-> out.ok,
                                refunded |-> charged.refunded \/ amount < 0,
                                failedBefore |-> charged.failedBefore \/ ~charged.ok,
                                abort |-> IF out.ok THEN NoAbort ELSE SysErrOutOfGas]
    /\ UNCHANGED <<gasLimit, mineVars, samplerVars>>

\* a call of t.Charge(amount):
\* if ok := t.TryCharge(amount); !ok { runtime.Abort(exitcode.SysErrOutOfGas) }
Charge ==
    /\ \E amount \in GasAmounts :
          /\ WithinGasModel(amount)
          /\ LET out == TryChargeOutcome(gasLimit, gasConsumed, amount)
             IN  /\ gasConsumed' = out.gasConsumed
                 /\ charged' = [op |-> "Charge", amount |-> amount,
                                before |-> GasConsumed, ok |-> out.ok,
                                refunded |-> charged.refunded \/ amount < 0,
                                failedBefore |-> charged.failedBefore \/ ~charged.ok,
                                abort |-> IF out.ok THEN NoAbort ELSE SysErrOutOfGas]
    /\ UNCHANGED <<gasLimit, mineVars, samplerVars>>

GasInit ==
    /\ MineIdle
    /\ SamplerIdle
    /\ \E limit \in GasLimits :
          /\ gasLimit = NewGasTracker(limit).gasLimit
          /\ gasConsumed = NewGasTracker(limit).gasConsumed
    /\ charged = NoCharge

GasNext ==
    \/ TryCharge
    \/ Charge

GasSpec == GasInit /\ [][GasNext]_vars

(* ======================================================================= *)
(* Properties of the chain sampler                                          *)
(* ======================================================================= *)
\* head and its ancestors
Ancestry(head) == 1..head
\* the highest tipset among head and its ancestors with height <= epoch, or
\* the genesis tipset when there is none
TipsetAtEpoch(st, head, epoch) ==
    LET low == { k \in Ancestry(head) : HeightOf(st, k) <= epoch }
    IN  IF low = {} THEN 1
        ELSE CHOOSE k \in low : \A j \in low : HeightOf(st, j) <= HeightOf(st, k)
\* H(H(vrfProof) || bigEndian64(epoch))
SeedOf(vrfProof, epoch) ==
    <<"blake2b-256", << <<"blake2b-256", vrfProof>>, BigEndian(epoch, 8) >> >>
\* a call of Sample has returned
HasSampled == sampled.via # "none"
\* the call returned the seed drawn from tipset key at the requested epoch
SeedFrom(key) ==
    /\ sampled.err = NilError
    /\ sampled.seed = SeedOf(VRFProofOf(store, key), sampled.epoch)
\* every tipset from head down to key resolves
ResolvesDownTo(head, key) == \A k \in key..head : Resolves(store, k)

(* ---------------- C12 ---------------- *)
\* C12 as stated: for every non-empty head key that resolves and every epoch,
\* Sample returns H(H(VRFProof of MinTicket(T)) || bigEndian64(epoch)) for T the
\* highest tipset at or below the epoch among head and its ancestors (or the
\* genesis tipset), and no error.
C12_SeedWheneverHeadResolves ==
    (HasSampled /\ sampled.head # EmptyKey /\ Resolves(store, sampled.head))
        => SeedFrom(TipsetAtEpoch(store, sampled.head, sampled.epoch))

\* C12 amended: for every non-empty head key and every epoch such that head and
\* every ancestor of head down to T resolve, Sample returns
\* H(H(VRFProof of MinTicket(T)) || bigEndian64(epoch)) and no error, where T is
\* the highest tipset at or below the epoch among head and its ancestors, or
\* the genesis tipset when there is none.
C12_SeedWhenWalkResolves ==
    (/\ HasSampled
     /\ sampled.head # EmptyKey
     /\ ResolvesDownTo(sampled.head,
                       TipsetAtEpoch(store, sampled.head, sampled.epoch)))
        => SeedFrom(TipsetAtEpoch(store, sampled.head, sampled.epoch))

\* a seed drawn from a proper ancestor of head that is not the genesis tipset
C12_Witness ==
    /\ HasSampled
    /\ sampled.head # EmptyKey
    /\ TipsetAtEpoch(store, sampled.head, sampled.epoch) \notin {1, sampled.head}
    /\ SeedFrom(TipsetAtEpoch(store, sampled.head, sampled.epoch))

(* ---------------- C13 ---------------- *)
\* C13: for every head that resolves and every epoch e above the height of the
\* head, Sample(head, e) succeeds, reads no ancestor and draws the seed from the
\* min ticket of the head itself, mixes in e and not the height of the head,
\* and so differs from Sample(head, height(head)).
C13_BeyondHead ==
    (/\ HasSampled
     /\ sampled.head # EmptyKey
     /\ Resolves(store, sampled.head)
     /\ sampled.epoch > HeightOf(store, sampled.head))
        => /\ SeedFrom(sampled.head)
           /\ sampled.reads = <<sampled.head>>
           /\ sampled.seed # SeedOf(VRFProofOf(store, sampled.head),
                                    HeightOf(store, sampled.head))
           /\ sampled.seed #
                 Sample(store, sampled.head, HeightOf(store, sampled.head)).seed

\* a sample above a head that has ancestors
C13_Witness ==
    /\ HasSampled
    /\ sampled.head > 1
    /\ Resolves(store, sampled.head)
    /\ sampled.epoch > HeightOf(store, sampled.head)
    /\ SeedFrom(sampled.head)

(* ---------------- C14 ---------------- *)
\* tipset key, below head, is followed by a run of null epochs that holds the
\* sampled epoch: height(key) <= epoch < height(key + 1), at least two epochs
InNullRun(key) ==
    /\ key \in 1..(sampled.head - 1)
    /\ HeightOf(store, key + 1) - HeightOf(store, key) > 1
    /\ HeightOf(store, key) <= sampled.epoch
    /\ sampled.epoch < HeightOf(store, key + 1)
\* the epochs of the run that follows tipset key
NullRun(key) == HeightOf(store, key) .. (HeightOf(store, key + 1) - 1)
\* the seeds of the epochs of the run, sampled from the same head, are those
\* of the tipset at its foot and differ from the seed of every other epoch of it
RunSeedsDistinct(key) ==
    \A e \in NullRun(key) \ {sampled.epoch} :
        /\ Sample(store, sampled.head, e).seed = SeedOf(VRFProofOf(store, key), e)
        /\ Sample(store, sampled.head, e).seed # sampled.seed

\* C14 as stated: with consecutive tipsets at heights H and H+k and a head at
\* or above H+k, Sample for every epoch e with H <= e < H+k resolves to the
\* tipset at H, and the seeds of two distinct epochs of the range differ.
C14_NullRunSeeds ==
    \A key \in DOMAIN store.tipsets :
        (HasSampled /\ Resolves(store, sampled.head) /\ InNullRun(key))
            => SeedFrom(key) /\ RunSeedsDistinct(key)

\* C14 amended: with consecutive tipsets at heights H and H+k, a head at or
\* above H+k, and head and every ancestor of head down to the tipset at H
\* resolving, Sample for every epoch e with H <= e < H+k resolves to the tipset
\* at H, and the seeds of two distinct epochs of the range differ.
C14_NullRunSeedsWhenWalkResolves ==
    \A key \in DOMAIN store.tipsets :
        (HasSampled /\ ResolvesDownTo(sampled.head, key) /\ InNullRun(key))
            => SeedFrom(key) /\ RunSeedsDistinct(key)

\* an epoch strictly inside a null run above a tipset that is not the genesis
C14_Witness ==
    \E key \in DOMAIN store.tipsets :
        /\ HasSampled
        /\ key > 1
        /\ InNullRun(key)
        /\ sampled.epoch > HeightOf(store, key)
        /\ SeedFrom(key)
        /\ RunSeedsDistinct(key)

FailsBeforeFound ==
    { k \in Ancestry(sampled.head) :
        /\ ~Resolves(store, k)
        /\ \A j \in (k + 1)..sampled.head : HeightOf(store, j) > sampled.epoch }

\* C17: when the head key does not resolve, or a parent key does not resolve
\* while the walk has not reached a tipset with height <= epoch, Sample returns
\* the error of that read and the nil seed, never a seed of the tipset read last.
C17_ReadErrorPropagates ==
    \A k \in DOMAIN store.tipsets :
        (/\ HasSampled
         /\ k \in FailsBeforeFound
         /\ \A j \in FailsBeforeFound : j <= k)
            => /\ sampled.err = GetTipSetError(k)
               /\ sampled.seed = NoSeed

\* a walk that read the head and failed on an ancestor of it
C17_Witness ==
    /\ HasSampled
    /\ Resolves(store, sampled.head)
    /\ FailsBeforeFound # {}
    /\ Len(sampled.reads) > 1
    /\ sampled.err # NilError
    /\ sampled.seed = NoSeed

(* ---------------- C18 ---------------- *)
\* C18: Sample(epoch) of a SamplerAtHead created with (reader, head) returns the
\* seed and the error that Sampler.Sample(head, epoch) returns on the same
\* reader, and the head it is bound to never changes.
C18_SamplerAtHeadDelegates ==
    /\ [](sampled.via = "SamplerAtHead" =>
            /\ samplerAtHead.bound
            /\ sampled.head = samplerAtHead.head
            /\ sampled.seed = Sample(store, samplerAtHead.head, sampled.epoch).seed
            /\ sampled.err = Sample(store, samplerAtHead.head, sampled.epoch).err)
    /\ [][samplerAtHead.bound => samplerAtHead' = samplerAtHead]_vars

\* a seed sampled through a SamplerAtHead bound below the latest tipset
C18_Witness ==
    /\ sampled.via = "SamplerAtHead"
    /\ samplerAtHead.head \notin {EmptyKey, Len(store.tipsets)}
    /\ sampled.err = NilError
    /\ sampled.seed = SeedOf(VRFProofOf(store, TipsetAtEpoch(store, samplerAtHead.head,
                                                           sampled.epoch)),
                             sampled.epoch)

(* ======================================================================= *)
(* Properties of the gas tracker                                            *)
(* ======================================================================= *)
(* ---------------- C19 ---------------- *)
\* C19: TryCharge(amount) returns true exactly when gasConsumed + amount <=
\* gasLimit; when it returns true gasConsumed has grown by amount; when it
\* returns false gasConsumed is gasLimit and RemainingGas() is 0.
C19_TryCharge ==
    (charged.op = "TryCharge")
        => /\ charged.ok <=> (charged.before + charged.amount <= gasLimit)
           /\ charged.ok => GasConsumed = charged.before + charged.amount
           /\ ~charged.ok => (GasConsumed = gasLimit /\ RemainingGas = 0)

\* a charge above what was left: the remaining gas was taken
C19_Witness ==
    /\ charged.op = "TryCharge"
    /\ ~charged.ok
    /\ charged.before < gasLimit
    /\ GasConsumed = gasLimit
    /\ RemainingGas = 0

(* ---------------- C20 ---------------- *)
\* C20: Charge(amount) aborts with the out-of-gas exit code exactly when
\* gasConsumed + amount > gasLimit; after an abort gasConsumed is gasLimit, the
\* tracker is not left as it was; without an abort gasConsumed has grown by
\* amount.
C20_Charge ==
    (charged.op = "Charge")
        => /\ (charged.abort = SysErrOutOfGas)
                 <=> (charged.before + charged.amount > gasLimit)
           /\ charged.abort \in {NoAbort, SysErrOutOfGas}
           /\ (charged.abort = SysErrOutOfGas) => GasConsumed = gasLimit
           /\ (charged.abort = NoAbort)
                 => GasConsumed = charged.before + charged.amount

\* an abort that moved gasConsumed up to the limit
C20_Witness ==
    /\ charged.op = "Charge"
    /\ charged.abort = SysErrOutOfGas
    /\ charged.before < gasLimit
    /\ GasConsumed = gasLimit

(* ======================================================================= *)
(* More properties of the mining worker                                     *)
(* ======================================================================= *)
\* the reads of the power-view snapshot: sector set, sector count, total
\* network power, sector size
PowerReads == {"SortedSectorInfos", "NumSectors", "Total", "SectorSize"}
\* the log entry at i was made when GenerateCandidates had already been invoked
AfterInvoking(op, i) == \E j \in 1..(i - 1) : calls[j].op = op

(* ---------------- C21 ---------------- *)
\* C21: the four power-view reads of an attempt are made, and a failure of any
\* of them is reported, before the candidate-generation goroutine is started;
\* no power-view read is made after GenerateCandidates was invoked.
C21_PowerReadsBeforeCandidates ==
    /\ candGen.st # "none" => \A op \in PowerReads : Succeeded(op)
    /\ \A i \in DOMAIN calls :
          calls[i].op \in PowerReads => ~AfterInvoking("GenerateCandidates", i)

(* ---------------- C22 ---------------- *)
\* how often the attempt has invoked op
TimesCalled(op) == Cardinality({ i \in DOMAIN calls : calls[i].op = op })

\* C22: in one attempt GenerateCandidates is invoked at most once and
\* GeneratePoSt at most once, GeneratePoSt only with a non-empty winner set,
\* and an attempt that reaches the candidate-generation phase invokes
\* GenerateCandidates (exactly once, with the first part).
C22_EngineCallsOnce ==
    /\ [](/\ TimesCalled("GenerateCandidates") <= 1
          /\ TimesCalled("GeneratePoSt") <= 1
          /\ Called("GeneratePoSt") => (winners # <<>> /\ postGen.winners # <<>>))
    /\ (candGen.st # "none") ~> (TimesCalled("GenerateCandidates") = 1)

\* an attempt that has returned after invoking each proof engine call once
C22_Witness ==
    /\ pc = "returned"
    /\ TimesCalled("GenerateCandidates") = 1
    /\ TimesCalled("GeneratePoSt") = 1
    /\ postGen.winners # <<>>

(* ---------------- C23 ---------------- *)
\* the proof engine call of goroutine g has returned and g is delivering the
\* result or the error on its unbuffered channel
Delivering(g) == g.st \in {"sendErr", "sendDone"}

\* C23: a goroutine started by Mine for a proof-generation race ends once its
\* proof engine call has returned, also when Mine took the ctx.Done case of
\* the select and no longer listens; none stays blocked in its send forever.
C23_GoroutinesEnd ==
    /\ Delivering(candGen) ~> (candGen.st = "exited")
    /\ Delivering(postGen) ~> (postGen.st = "exited")

(* ---------------- C24 ---------------- *)
\* in each race the proof engine returns or the context is cancelled
CandidatesRaceResolves == (candGen.st = "running") ~> (cancelled \/ Delivering(candGen))
PoStRaceResolves == (postGen.st = "running") ~> (cancelled \/ Delivering(postGen))

\* C24: every attempt returns, provided that every synchronous call returns
\* and the Output is received (the steps of Mine are made), and that in each
\* race the proof engine returns or the context is cancelled; a proof engine
\* call that never returns does not hold Mine back once the context is
\* cancelled.
C24_MineReturns ==
    (CandidatesRaceResolves /\ PoStRaceResolves) => <>(pc = "returned")

\* Mine has returned while GenerateCandidates is still running
C24_Witness ==
    /\ pc = "returned"
    /\ cancelled
    /\ candGen.st = "running"

(* ---------------- C25 ---------------- *)
\* C25: once the candidate-generation select took its ctx.Done case, the
\* attempt never starts or invokes GeneratePoSt, never calls the block
\* constructor and never sends an Output that carries a block.
C25_NoBlockAfterCandidatesCancel ==
    candBranch = "ctx.Done" =>
        /\ pc \in {"NumSectors", "Total", "SectorSize", "winners", "returned"}
        /\ postGen.st = "none"
        /\ ~Called("GeneratePoSt")
        /\ ~Called("Generate")
        /\ \A i \in DOMAIN outCh : outCh[i].NewBlock = NilBlock

\* the attempt has returned after the ctx.Done case although the goroutine
\* holds candidates and the power reads succeeded
C25_Witness ==
    /\ candBranch = "ctx.Done"
    /\ pc = "returned"
    /\ Succeeded("SectorSize")
    /\ candGen.st = "sendDone"
    /\ candGen.cands # <<>>

(* ---------------- C26 ---------------- *)
\* the win test of the claim on candidate c, with the power snapshot read
WinsWithNoFaults(c) ==
    CandidateWins(ChallengeTicket(c), sectorNum, 0, networkPower, sectorSize)

\* C26: the winner set is the subsequence, in the order the proof engine
\* delivered them, of the candidates c with CandidateWins(hash(c.PartialTicket),
\* sectorCount, 0, networkPower, sectorSize), the fault count being 0 always;
\* it is determined by the candidate list and the power snapshot.
C26_WinnersAreWinningCandidates ==
    IF Succeeded("SectorSize") /\ pc # "winners"
      THEN winners = SelectSeq(candidates, WinsWithNoFaults)
      ELSE winners = <<>>

\* two different candidates won: the order of the winners can be told
C26_Witness ==
    /\ Succeeded("SectorSize")
    /\ pc = "returned"
    /\ Len(winners) > 1
    /\ winners[1] # winners[2]

\* the epoch height(base) + n + 1, as an integer
EpochAfterNulls == WidePlus(WideOf(base.height), WidePlus(nullBlkCount, WideOf(1)))

\* C27: for a defined base and a null block count n, Mine asks for the
\* ancestors at epoch height(base) + n + 1, takes the election ticket at index
\* ElectionLookback - 1 (counted from 0) of the list returned, and derives the
\* post-randomness from that election ticket, the resolved worker address and
\* n, not from the next ticket of the attempt.
C27_ElectionInputs ==
    /\ \A i \in DOMAIN calls :
           (calls[i].op = "getAncestors" /\ calls[i].err = NoErr) =>
               calls[i].epoch = EpochAfterNulls
    /\ Succeeded("SampleNthTicket") => electionTicket = ancestors[(ElectionLookback - 1) + 1]
    /\ Succeeded("GeneratePoStRandomness") =>
           postRandomness = PoStRandomnessValue(electionTicket, workerAddr, worker.workerSigner, nullBlkCount)

\* the ancestors were asked for at an epoch that is not above the base
C27_EpochNotAboveBase ==
    \E i \in DOMAIN calls :
        /\ calls[i].op = "getAncestors" /\ calls[i].err = NoErr
        /\ calls[i].epoch \in {WideOf(base.height), WidePlus(WideOf(base.height), Wide(-1, 0))}

\* the attempt with the given id, running or parked
AttemptOf(id) == IF Running = id THEN Attempt ELSE parked.st

\* attempt 1 was called with null block count 0 and attempt 2 with 1: each
\* keeps its argument, and its randomness and blocks are made from its own
OwnInputs ==
    \A id \in {1, 2} : \A a \in {AttemptOf(id)} :
        /\ a.nullBlkCount = WideOf(id - 1)
        /\ a.postRandomness # NilRandomness =>
               a.postRandomness = PoStRandomnessValue(a.electionTicket, a.workerAddr,
                                                      NewDefaultWorker.workerSigner, WideOf(id - 1))
        /\ \A i \in DOMAIN a.outCh :
               a.outCh[i].NewBlock # NilBlock =>
                   /\ a.outCh[i].NewBlock.nullBlkCount = WideOf(id - 1)
                   /\ a.outCh[i].NewBlock.postRandomness = a.postRandomness

\* a step of one attempt, a cancellation of its context included, leaves the
\* worker and the other attempt as they are; a turn of the scheduler exchanges
\* the two attempts unchanged
IsolatedStep ==
    /\ worker' = worker
    /\ IF parked'.id # parked.id
         THEN parked'.st = Attempt /\ Attempt' = parked.st
         ELSE parked' = parked

\* C28: Mine writes no field of the DefaultWorker, and of two attempts that
\* run concurrently on one worker, each with its own context and output
\* channel, each one's steps, Outputs and result are its own: no step of one
\* attempt and no cancellation of its context changes anything of the other.
C28_AttemptsIsolated == [](OwnInputs) /\ [][IsolatedStep]_vars

\* both attempts are over: one was cancelled in the candidates race and sent
\* nothing, the other one won and sent its block
C28_Witness ==
    /\ parked.id # 0
    /\ pc = "returned" /\ won /\ ~cancelled
    /\ Len(outCh) = 1 /\ outCh[1].NewBlock # NilBlock
    /\ parked.st.pc = "returned" /\ parked.st.candBranch = "ctx.Done"
    /\ parked.st.outCh = <<>> /\ ~parked.st.won

(* ======================================================================= *)
(* More properties of the chain sampler                                    *)
(* ======================================================================= *)
\* the store with every tipset readable
Readable(st) == [st EXCEPT !.unreadable = {}]

\* C29: Sample reads the chain lazily. It resolves the head, then its
\* ancestors one after the other, and none below the tipset T it resolves the
\* epoch to; when the head and the ancestors down to T are readable it reads
\* exactly down to T, and an unreadable ancestor below T causes no error and
\* leaves the seed what it is when every tipset is readable.
C29_LazyReads ==
    (HasSampled /\ sampled.head # EmptyKey) =>
        \A T \in {TipsetAtEpoch(store, sampled.head, sampled.epoch)} :
            /\ sampled.reads # <<>>
            /\ \A i \in DOMAIN sampled.reads :
                   sampled.reads[i] = sampled.head - (i - 1) /\ sampled.reads[i] >= T
            /\ ResolvesDownTo(sampled.head, T) =>
                   /\ sampled.reads[Len(sampled.reads)] = T
                   /\ SeedFrom(T)
                   /\ \A all \in {Sample(Readable(store), sampled.head, sampled.epoch)} :
                          /\ all.err = NilError
                          /\ all.seed = sampled.seed
                          /\ all.reads = sampled.reads

\* a seed drawn from an ancestor of the head while a tipset below that
\* ancestor is unreadable
C29_Witness ==
    /\ HasSampled
    /\ sampled.err = NilError
    /\ Len(sampled.reads) > 1
    /\ \E u \in store.unreadable : u < sampled.reads[Len(sampled.reads)]

\* the ancestors of the head of the last call that are not above the epoch asked for
AncestorsAtOrAbove == { h1 \in 1..(sampled.head - 1) : sampled.epoch <= HeightOf(store, h1) }
\* seed and error of the last call are those of Sample(h1, epoch)
SameFrom(h1) ==
    \A r \in {Sample(store, h1, sampled.epoch)} :
        r.seed = sampled.seed /\ r.err = sampled.err

\* C30 as stated: for every head h1, every descendant head h2 of h1 and every
\* epoch e <= height(h1), Sample(h2, e) equals Sample(h1, e).
C30_ConsistentAlongChain ==
    (HasSampled /\ sampled.head # EmptyKey) =>
        \A h1 \in AncestorsAtOrAbove : SameFrom(h1)

\* C30 amended: for every head h1, every descendant head h2 of h1 such that h2
\* and the tipsets between h2 and h1 resolve, and every epoch e <= height(h1),
\* Sample(h2, e) returns the seed and the error Sample(h1, e) returns; for
\* e > height(h1), Sample(h1, e) draws its seed from h1 itself while
\* Sample(h2, e) draws it from h1 or from a tipset above h1.
C30_ConsistentWhereReadable ==
    (HasSampled /\ sampled.head # EmptyKey) =>
        \A h1 \in 1..(sampled.head - 1) :
            ResolvesDownTo(sampled.head, h1 + 1) =>
                IF sampled.epoch <= HeightOf(store, h1)
                  THEN SameFrom(h1)
                  ELSE ResolvesDownTo(sampled.head, h1) =>
                          /\ Sample(store, h1, sampled.epoch).seed =
                                 SeedOf(VRFProofOf(store, h1), sampled.epoch)
                          /\ \E T \in h1..sampled.head : SeedFrom(T)

\* a seed drawn two tipsets below the head, the same from the tipset between
C30_Witness ==
    /\ HasSampled
    /\ sampled.err = NilError
    /\ Len(sampled.reads) > 2
    /\ (sampled.head - 1) \in AncestorsAtOrAbove
    /\ SameFrom(sampled.head - 1)

\* C31: for every chain and every epoch, the walk inside Sample visits tipsets
\* of strictly decreasing height, each at most once, none after the genesis
\* tipset, and Sample returns: a seed and no error, or an error and no seed.
C31_WalkEnds ==
    HasSampled =>
        /\ \A i \in DOMAIN sampled.reads :
               /\ sampled.reads[i] \in DOMAIN store.tipsets
               /\ \A j \in DOMAIN sampled.reads :
                      i < j => /\ sampled.reads[i] # sampled.reads[j]
                               /\ HeightOf(store, sampled.reads[i]) >
                                      HeightOf(store, sampled.reads[j])
        /\ Len(sampled.reads) <= Len(store.tipsets)
        /\ \/ sampled.err = NilError /\ sampled.seed # NoSeed
           \/ sampled.err # NilError /\ sampled.seed = NoSeed

\* a walk that went through the whole chain, the genesis tipset included,
\* for an epoch below the height of the genesis tipset
C31_Witness ==
    /\ HasSampled
    /\ sampled.err = NilError
    /\ Len(sampled.reads) = Len(store.tipsets)
    /\ Len(sampled.reads) > 2
    /\ sampled.epoch < HeightOf(store, 1)

(* ======================================================================= *)
(* More properties of the gas tracker                                      *)
(* ======================================================================= *)
\* the tracker was created with a non-negative limit and no call so far had a
\* negative amount
ChargesOnly == gasLimit >= 0 /\ ~charged.refunded

\* the consumed gas is within the limit, and so is what remains
GasWithinLimit ==
    /\ 0 <= GasConsumed /\ GasConsumed <= gasLimit
    /\ RemainingGas = gasLimit - GasConsumed /\ RemainingGas >= 0
    /\ charged.before <= GasConsumed
    /\ (charged.failedBefore /\ charged.amount > 0) => ~charged.ok

\* a call leaves the limit as it is and does not lower the consumed gas
GasStep == gasLimit' = gasLimit /\ (ChargesOnly' => gasConsumed' >= gasConsumed)

\* C32: for a GasTracker created with a non-negative limit, after any sequence
\* of Charge and TryCharge calls with non-negative amounts,
\* 0 <= gasConsumed <= gasLimit and RemainingGas() = gasLimit - gasConsumed >= 0;
\* gasConsumed never decreases, gasLimit never changes, and once a charge has
\* failed every later charge with a positive amount fails too.
C32_GasWithinLimit == [](ChargesOnly => GasWithinLimit) /\ [][GasStep]_vars

\* a charge of a positive amount that fails after an earlier charge failed
C32_Witness ==
    /\ ChargesOnly
    /\ gasLimit > 0
    /\ charged.failedBefore /\ charged.amount > 0 /\ ~charged.ok
    /\ GasConsumed = gasLimit

====
